---------------------------- MODULE Spec2Model ----------------------------
(***************************************************************************)
(* Model of the smart-chair posture server (src/server/server.js).         *)
(*                                                                         *)
(* The server keeps a process-wide list of chair identifiers, stores one   *)
(* PostureData document per accepted observation, and emits a Socket.IO    *)
(* event for each stored observation.  Two classifiers (evaluatePosture,   *)
(* analyzePoseNetPosture) turn the raw input into a posture label.         *)
(*                                                                         *)
(* JavaScript numbers are modelled as records [nan, n]: an integer n, or   *)
(* NaN (what arithmetic on `undefined` yields).  All inputs of the model   *)
(* are integers, and the three thresholds of the code are compared by      *)
(* cross-multiplication:                                                   *)
(*      a > b * 1.5   <=>   2a > 3b                                        *)
(*      a > b * 0.3   <=>  10a > 3b                                        *)
(*      a > b * 0.2   <=>   5a >  b                                        *)
(* For integer a and b this is what IEEE-754 doubles compute: 1.5 is       *)
(* exact, and the relative errors of the doubles 0.3 and 0.2 (below 2^-54  *)
(* resp. equal to 2^-54) are less than half an ulp, so b*0.3 and b*0.2     *)
(* round to the exact integer whenever the exact product is an integer.    *)
(***************************************************************************)
EXTENDS Integers, Sequences, FiniteSets, TLC

(***************************************************************************)
(* Bounds of the model.                                                    *)
(***************************************************************************)
\* number of ingestion requests the server receives in one behaviour
MaxRequests == 2
\* the unit-test harness feeds evaluatePosture readings k * ReadingUnit,
\* k \in 0..MaxReadingUnits
MaxReadingUnits == 10
ReadingUnit == 10
\* the keypoint harness places keypoints at heights 0..MaxPoseY
MaxPoseY == 4
\* the clock advances at most MaxTicks times, one hour each time
MaxTicks == 2
\* number of Socket.IO clients
MaxSubscribers == 1

\* 3600 * 1000: the window of GET /api/chairids, in milliseconds
HourMs == 3600000

(***************************************************************************)
(* JavaScript values.                                                      *)
(***************************************************************************)
JNum(k) == [nan |-> FALSE, n |-> k]
NaN == [nan |-> TRUE, n |-> 0]

\* a + b
JPlus(a, b) == IF a.nan \/ b.nan THEN NaN ELSE JNum(a.n + b.n)
\* a - b
JMinus(a, b) == IF a.nan \/ b.nan THEN NaN ELSE JNum(a.n - b.n)
\* Math.abs(a)
JAbs(a) == IF a.nan THEN NaN ELSE JNum(IF a.n < 0 THEN -a.n ELSE a.n)
\* a < k for an integer literal k; any comparison with NaN is false
JLess(a, k) == ~a.nan /\ a.n < k
\* a > b * (num/den) for a literal num/den; any comparison with NaN is false
JGreaterTimes(a, b, num, den) == ~a.nan /\ ~b.nan /\ den * a.n > num * b.n

\* the absent chair identifier / body field
UNDEFINED == "<undefined>"

(***************************************************************************)
(* Sensor payloads.  An element of the sensors array is an object          *)
(* {value: k} or null.                                                     *)
(***************************************************************************)
SensorObj(k) == [isNull |-> FALSE, value |-> JNum(k)]
SensorNull == [isNull |-> TRUE, value |-> NaN]

(***************************************************************************)
(* evaluatePosture (server.js 93-124).                                     *)
(***************************************************************************)
\* sensorData.map(s => s.value) reads a property of null: TypeError
evaluatePostureThrows(sensorData) ==
    \E i \in 1..Len(sensorData) : sensorData[i].isNull

\* sensorValues[i] with JavaScript's 0-based index; out of range is undefined
sensorValueAt(sensorData, i) ==
    IF i + 1 <= Len(sensorData) THEN sensorData[i + 1].value ELSE NaN

RECURSIVE totalWeightOf(_)
\* sensorValues.reduce((sum, val) => sum + val, 0)
totalWeightOf(sensorData) ==
    IF sensorData = <<>> THEN JNum(0)
    ELSE JPlus(totalWeightOf(SubSeq(sensorData, 1, Len(sensorData) - 1)),
               sensorData[Len(sensorData)].value)

leftSideOf(sensorData) ==
    JPlus(sensorValueAt(sensorData, 0), sensorValueAt(sensorData, 2))
rightSideOf(sensorData) ==
    JPlus(sensorValueAt(sensorData, 1), sensorValueAt(sensorData, 3))
differenceOf(sensorData) ==
    JAbs(JMinus(leftSideOf(sensorData), rightSideOf(sensorData)))
backWeightOf(sensorData) ==
    JPlus(sensorValueAt(sensorData, 0), sensorValueAt(sensorData, 1))
frontWeightOf(sensorData) ==
    JPlus(sensorValueAt(sensorData, 2), sensorValueAt(sensorData, 3))

\* mutant: the imbalance test comes before the forward-lean test
evaluatePostureImbalanceFirst(sensorData) ==
    IF JLess(totalWeightOf(sensorData), 200) THEN "not_sitting"
    ELSE IF JGreaterTimes(differenceOf(sensorData), totalWeightOf(sensorData), 3, 10)
         THEN "poor"
    ELSE IF JGreaterTimes(frontWeightOf(sensorData), backWeightOf(sensorData), 3, 2)
         THEN "lean_forwarding"
    ELSE "good"

\* mutant: the forward-lean test comes before the low-weight test
evaluatePostureLeanFirst(sensorData) ==
    IF JGreaterTimes(frontWeightOf(sensorData), backWeightOf(sensorData), 3, 2)
         THEN "lean_forwarding"
    ELSE IF JLess(totalWeightOf(sensorData), 200) THEN "not_sitting"
    ELSE IF JGreaterTimes(differenceOf(sensorData), totalWeightOf(sensorData), 3, 10)
         THEN "poor"
    ELSE "good"

\* mutant: the imbalance test uses >= instead of >
evaluatePostureImbalanceGeq(sensorData) ==
    IF JLess(totalWeightOf(sensorData), 200) THEN "not_sitting"
    ELSE IF JGreaterTimes(frontWeightOf(sensorData), backWeightOf(sensorData), 3, 2)
         THEN "lean_forwarding"
    ELSE IF /\ ~differenceOf(sensorData).nan
            /\ ~totalWeightOf(sensorData).nan
            /\ 10 * differenceOf(sensorData).n >= 3 * totalWeightOf(sensorData).n
         THEN "poor"
    ELSE "good"

evaluatePosture(sensorData) ==
    IF JLess(totalWeightOf(sensorData), 200) THEN "not_sitting"
    ELSE IF JGreaterTimes(frontWeightOf(sensorData), backWeightOf(sensorData), 3, 2)
         THEN "lean_forwarding"
    ELSE IF JGreaterTimes(differenceOf(sensorData), totalWeightOf(sensorData), 3, 10)
         THEN "poor"
    ELSE "good"

(***************************************************************************)
(* PoseNet payloads.  An element of the keypoints array is null or an      *)
(* object {part, score, position: {x, y}}; the score is kept in tenths     *)
(* (score 0.3 is 3), and an object may lack its position.                  *)
(***************************************************************************)
Keypoint(p, s, px, py) ==
    [isNull |-> FALSE, part |-> p, score |-> s, hasPosition |-> TRUE,
     x |-> px, y |-> py]
KeypointNoPosition(p, s) ==
    [isNull |-> FALSE, part |-> p, score |-> s, hasPosition |-> FALSE,
     x |-> 0, y |-> 0]
KeypointNull ==
    [isNull |-> TRUE, part |-> "", score |-> 0, hasPosition |-> FALSE,
     x |-> 0, y |-> 0]

AbsInt(k) == IF k < 0 THEN -k ELSE k

(***************************************************************************)
(* keypoints.find(kp => kp.part === p): the elements are visited in order  *)
(* up to the first match; visiting a null element throws a TypeError.      *)
(***************************************************************************)
findMatches(keypoints, p) ==
    {i \in 1..Len(keypoints) : ~keypoints[i].isNull /\ keypoints[i].part = p}
findThrows(keypoints, p) ==
    \E i \in 1..Len(keypoints) :
        /\ keypoints[i].isNull
        /\ \A j \in findMatches(keypoints, p) : j > i
\* the element is present (find did not return undefined)
findHas(keypoints, p) == findMatches(keypoints, p) # {}
\* the element found: the first match
findPart(keypoints, p) ==
    keypoints[CHOOSE i \in findMatches(keypoints, p) :
                  \A j \in findMatches(keypoints, p) : i <= j]

(***************************************************************************)
(* analyzePoseNetPosture (server.js 133-168).                              *)
(***************************************************************************)
\* mutant: the nose is not among the essential keypoints
essentialMissingShouldersOnly(keypoints) ==
    \/ ~findHas(keypoints, "leftShoulder")
    \/ ~findHas(keypoints, "rightShoulder")
    \/ findPart(keypoints, "leftShoulder").score < 3
    \/ findPart(keypoints, "rightShoulder").score < 3

\* lines 143-144
essentialMissing(keypoints) ==
    \/ ~findHas(keypoints, "nose")
    \/ ~findHas(keypoints, "leftShoulder")
    \/ ~findHas(keypoints, "rightShoulder")
    \/ findPart(keypoints, "nose").score < 3
    \/ findPart(keypoints, "leftShoulder").score < 3
    \/ findPart(keypoints, "rightShoulder").score < 3

\* lines 149-152
shoulderDiff(keypoints) ==
    AbsInt(findPart(keypoints, "leftShoulder").y - findPart(keypoints, "rightShoulder").y)
shoulderDistance(keypoints) ==
    AbsInt(findPart(keypoints, "leftShoulder").x - findPart(keypoints, "rightShoulder").x)
\* mutant: >= instead of >, so coincident shoulders count as tilted
shouldersTiltedGeq(keypoints) ==
    5 * shoulderDiff(keypoints) >= shoulderDistance(keypoints)

shouldersTilted(keypoints) ==
    5 * shoulderDiff(keypoints) > shoulderDistance(keypoints)

\* mutant: an ear of score 0.5 counts as reliable
earsReliableGeq(keypoints) ==
    /\ findHas(keypoints, "leftEar")
    /\ findHas(keypoints, "rightEar")
    /\ findPart(keypoints, "leftEar").score >= 5
    /\ findPart(keypoints, "rightEar").score >= 5

\* line 157
earsReliable(keypoints) ==
    /\ findHas(keypoints, "leftEar")
    /\ findHas(keypoints, "rightEar")
    /\ findPart(keypoints, "leftEar").score > 5
    /\ findPart(keypoints, "rightEar").score > 5

\* lines 158-162
earDiff(keypoints) ==
    AbsInt(findPart(keypoints, "leftEar").y - findPart(keypoints, "rightEar").y)
earDistance(keypoints) ==
    AbsInt(findPart(keypoints, "leftEar").x - findPart(keypoints, "rightEar").x)
earsTilted(keypoints) ==
    10 * earDiff(keypoints) > 3 * earDistance(keypoints)

\* the call ends in a TypeError: a null element visited by one of the five
\* finds, or the position of a shoulder or of an ear read where it is absent
analyzePoseNetPostureThrows(keypoints) ==
    \/ \E p \in {"nose", "leftShoulder", "rightShoulder", "leftEar", "rightEar"} :
          findThrows(keypoints, p)
    \/ /\ ~essentialMissing(keypoints)
       /\ \/ ~findPart(keypoints, "leftShoulder").hasPosition
          \/ ~findPart(keypoints, "rightShoulder").hasPosition
          \/ /\ ~shouldersTilted(keypoints)
             /\ earsReliable(keypoints)
             /\ \/ ~findPart(keypoints, "leftEar").hasPosition
                \/ ~findPart(keypoints, "rightEar").hasPosition

analyzePoseNetPosture(keypoints) ==
    IF essentialMissing(keypoints) THEN "not_sitting"
    ELSE IF shouldersTilted(keypoints) THEN "poor"
    ELSE IF earsReliable(keypoints) /\ earsTilted(keypoints) THEN "poor"
    ELSE "good"

(***************************************************************************)
(* Request bodies.  A body carries the chair identifier (`id` of /chair,   *)
(* `chairId` of /posenet; UNDEFINED when the field is absent) and the      *)
(* payload (`sensors` resp. `keypoints`): absent, a non-array object, or   *)
(* an array.                                                               *)
(***************************************************************************)
ChairIdInputs == {UNDEFINED, "chair-1"}

Sensors4(a, b, c, d) == <<SensorObj(a), SensorObj(b), SensorObj(c), SensorObj(d)>>

\* the pipeline's inputs are kept few; the classifiers' harnesses range over
\* many more
SensorArrayInputs ==
    { Sensors4(100, 100, 100, 100),                          \* balanced
      Sensors4(0, 0, 100, 100),                              \* weight on 2 and 3
      <<SensorObj(100), SensorObj(100), SensorObj(100)>>,    \* three entries
      <<SensorObj(100), SensorNull, SensorObj(100), SensorObj(100)>> }

KeypointArrayInputs ==
    { <<Keypoint("nose", 2, 0, 0), Keypoint("leftShoulder", 2, 0, 0),
        Keypoint("rightShoulder", 2, 0, 0)>>,                \* low scores
      <<Keypoint("nose", 9, 0, 0), Keypoint("leftShoulder", 9, 100, 200),
        Keypoint("rightShoulder", 9, 200, 260)>>,            \* tilted shoulders
      <<Keypoint("nose", 9, 0, 0), KeypointNoPosition("leftShoulder", 9),
        Keypoint("rightShoulder", 9, 200, 200)>> }           \* no position

Body(r, i, t, s, k) ==
    [route |-> r, id |-> i, payloadType |-> t, sensors |-> s, keypoints |-> k]

ChairBodies ==
    { Body("/chair", i, t, <<>>, <<>>) :
          i \in ChairIdInputs, t \in {"undefined", "object"} }
    \cup { Body("/chair", i, "array", s, <<>>) :
          i \in ChairIdInputs, s \in SensorArrayInputs }

PosenetBodies ==
    { Body("/posenet", i, t, <<>>, <<>>) :
          i \in ChairIdInputs, t \in {"undefined", "object"} }
    \cup { Body("/posenet", i, "array", <<>>, k) :
          i \in ChairIdInputs, k \in KeypointArrayInputs }

NoBody == Body("", UNDEFINED, "undefined", <<>>, <<>>)

\* mutant: only the `!payload` half of the test, not Array.isArray
payloadInvalidFalsyOnly(body) == body.payloadType = "undefined"

\* !payload || !Array.isArray(payload)
payloadInvalid(body) == body.payloadType # "array"

(***************************************************************************)
(* State.                                                                  *)
(***************************************************************************)
VARIABLES
    registeredChairIds,  \* the module-level list of chair identifiers
    PostureData,         \* the documents of the PostureData collection
    emitted,             \* the events handed to io.emit, in order
    reqs,                \* per request: position of its handler and its data
    probe,               \* unit-test harness: one direct call of a classifier
    now,                 \* Date.now(), in milliseconds since the server started
    lastGet,             \* the response to the most recent GET request
    subscribers          \* per Socket.IO client: connected, events received

vars == <<registeredChairIds, PostureData, emitted, reqs, probe, now, lastGet,
          subscribers>>

\* what the ingestion handlers leave alone
aside == <<probe, now, lastGet, subscribers>>

Requests == 1..MaxRequests

IdleRequest ==
    [pc |-> "idle", body |-> NoBody, chairId |-> UNDEFINED,
     postureStatus |-> "", timestamp |-> 0, steps |-> <<>>, res |-> <<>>]

NoProbe ==
    [fn |-> "", sensors |-> <<>>, keypoints |-> <<>>, called |-> FALSE,
     result |-> ""]

\* no GET request received yet
NoGet == [route |-> "", pc |-> "none", since |-> 0, status |-> 0, ids |-> {}]

Sockets == 1..MaxSubscribers
NoSubscribers == [s \in Sockets |-> [connected |-> FALSE, received |-> 0]]

\* everything but the unit-test harness, as it is when the server has started
ServerStarted ==
    /\ registeredChairIds = <<>>
    /\ PostureData = <<>>
    /\ emitted = <<>>
    /\ reqs = [i \in Requests |-> IdleRequest]
    /\ now = 0
    /\ lastGet = NoGet
    /\ subscribers = NoSubscribers

Init ==
    /\ ServerStarted
    /\ probe = NoProbe

(***************************************************************************)
(* registerChairId (server.js 74-79).                                      *)
(***************************************************************************)
includes(list, id) == \E k \in 1..Len(list) : list[k] = id

\* mutant: the identifier is pushed without the membership test
registerChairIdAlways(list, id) == Append(list, id)

registerChairId(list, id) ==
    IF ~includes(list, id) THEN Append(list, id) ELSE list

(***************************************************************************)
(* Responses, documents and events.                                        *)
(***************************************************************************)
Response(st, err, msg, ps) ==
    [status |-> st, error |-> err, message |-> msg, postureStatus |-> ps]

\* new PostureData({chairId, sensors, postureStatus}) / ({chairId, poseData, ...})
Document(i, r) ==
    [req |-> i, chairId |-> r.chairId,
     sensors |-> r.body.sensors,
     poseData |-> r.body.keypoints,
     hasPoseData |-> (r.body.route = "/posenet"),
     postureStatus |-> r.postureStatus,
     timestamp |-> r.timestamp]

\* the payload of io.emit('chairData', ...) resp. io.emit('postureUpdate', ...)
ChairDataEvent(i, r) ==
    [req |-> i, name |-> "chairData", chairId |-> r.chairId,
     sensors |-> r.body.sensors, postureStatus |-> r.postureStatus,
     source |-> "sensors", hasPoseData |-> FALSE, timestamp |-> now]
\* mutant: the /posenet event is sent under the name and source of /chair
PostureUpdateEventAsSensors(i, r) ==
    [req |-> i, name |-> "chairData", chairId |-> r.chairId,
     sensors |-> <<>>, postureStatus |-> r.postureStatus,
     source |-> "sensors", hasPoseData |-> FALSE, timestamp |-> now]

PostureUpdateEvent(i, r) ==
    [req |-> i, name |-> "postureUpdate", chairId |-> r.chairId,
     sensors |-> <<>>, postureStatus |-> r.postureStatus,
     source |-> "posenet", hasPoseData |-> TRUE, timestamp |-> now]

\* requests are numbered in the order in which their handlers start
CanStart(i) ==
    /\ reqs[i].pc = "idle"
    /\ \A j \in Requests : j < i => reqs[j].pc # "idle"

(***************************************************************************)
(* POST /chair (server.js 202-248), from the start of the handler to the   *)
(* first await: everything up to `await postureRecord.save()` runs         *)
(* synchronously.                                                          *)
(***************************************************************************)
\* req.body.id || 'unknown'
chairIdOrUnknown(id) == IF id = UNDEFINED \/ id = "" THEN "unknown" ELSE id

ChairStarted(body) ==
    LET chairId == chairIdOrUnknown(body.id)
        started == [IdleRequest EXCEPT !.body = body, !.chairId = chairId]
    IN  IF payloadInvalid(body)
        THEN [started EXCEPT
                !.pc = "done",
                !.steps = <<"register", "validate", "respond">>,
                !.res = <<Response(400, "Invalid sensor data format", "", "")>>]
        ELSE IF evaluatePostureThrows(body.sensors)
        THEN [started EXCEPT
                !.pc = "done",
                !.steps = <<"register", "validate", "classify", "catch", "respond">>,
                !.res = <<Response(500, "Server error", "", "")>>]
        ELSE [started EXCEPT
                !.pc = "saving",
                !.postureStatus = evaluatePosture(body.sensors),
                !.timestamp = now,
                !.steps = <<"register", "validate", "classify", "save">>]

\* mutant: the identifier is registered as sent, before the default applies
PostChairRegistersRawId(i, body) ==
    /\ CanStart(i)
    /\ body \in ChairBodies
    /\ registeredChairIds' = registerChairId(registeredChairIds, body.id)
    /\ reqs' = [reqs EXCEPT ![i] = ChairStarted(body)]
    /\ UNCHANGED <<PostureData, emitted, aside>>

PostChair(i, body) ==
    /\ CanStart(i)
    /\ body \in ChairBodies
    /\ registeredChairIds' =
           registerChairId(registeredChairIds, chairIdOrUnknown(body.id))
    /\ reqs' = [reqs EXCEPT ![i] = ChairStarted(body)]
    /\ UNCHANGED <<PostureData, emitted, aside>>

(***************************************************************************)
(* POST /posenet (server.js 252-296), up to `await postureRecord.save()`.  *)
(***************************************************************************)
PosenetStarted(body) ==
    LET started == [IdleRequest EXCEPT !.body = body, !.chairId = body.id]
    IN  IF payloadInvalid(body)
        THEN [started EXCEPT
                !.pc = "done",
                !.steps = <<"register", "validate", "respond">>,
                !.res = <<Response(400, "Invalid keypoints data", "", "")>>]
        ELSE IF analyzePoseNetPostureThrows(body.keypoints)
        THEN [started EXCEPT
                !.pc = "done",
                !.steps = <<"register", "validate", "classify", "catch", "respond">>,
                !.res = <<Response(500, "Server error", "", "")>>]
        ELSE [started EXCEPT
                !.pc = "saving",
                !.postureStatus = analyzePoseNetPosture(body.keypoints),
                !.timestamp = now,
                !.steps = <<"register", "validate", "classify", "save">>]

\* mutant: the keypoints are validated before the identifier is registered
PostPosenetValidatesFirst(i, body) ==
    /\ CanStart(i)
    /\ body \in PosenetBodies
    /\ registeredChairIds' =
           IF payloadInvalid(body) THEN registeredChairIds
           ELSE registerChairId(registeredChairIds, body.id)
    /\ reqs' = [reqs EXCEPT ![i] = PosenetStarted(body)]
    /\ UNCHANGED <<PostureData, emitted, aside>>

PostPosenet(i, body) ==
    /\ CanStart(i)
    /\ body \in PosenetBodies
    /\ registeredChairIds' = registerChairId(registeredChairIds, body.id)
    /\ reqs' = [reqs EXCEPT ![i] = PosenetStarted(body)]
    /\ UNCHANGED <<PostureData, emitted, aside>>

(***************************************************************************)
(* postureRecord.save(): the store writes the document and resolves the    *)
(* promise, or rejects it and writes nothing.                              *)
(***************************************************************************)
SaveResolves(i) ==
    /\ reqs[i].pc = "saving"
    /\ PostureData' = Append(PostureData, Document(i, reqs[i]))
    /\ reqs' = [reqs EXCEPT ![i].pc = "saved",
                            ![i].steps = Append(@, "saved")]
    /\ UNCHANGED <<registeredChairIds, emitted, aside>>

\* mutant: the event is emitted without waiting for the save, so a rejected
\* save leaves the event of its request behind
SaveRejectsAfterEmit(i) ==
    /\ reqs[i].pc = "saving"
    /\ emitted' = Append(emitted,
                         IF reqs[i].body.route = "/chair"
                         THEN ChairDataEvent(i, reqs[i])
                         ELSE PostureUpdateEvent(i, reqs[i]))
    /\ reqs' = [reqs EXCEPT
                  ![i].pc = "done",
                  ![i].steps = @ \o <<"emit", "saveFailed", "catch", "respond">>,
                  ![i].res = Append(@, Response(500, "Server error", "", ""))]
    /\ UNCHANGED <<registeredChairIds, PostureData, aside>>

\* mutant: the handler has no catch, the rejection escapes and the request
\* is never answered
SaveRejectsUncaught(i) ==
    /\ reqs[i].pc = "saving"
    /\ reqs' = [reqs EXCEPT
                  ![i].pc = "done",
                  ![i].steps = @ \o <<"saveFailed">>]
    /\ UNCHANGED <<registeredChairIds, PostureData, emitted, aside>>

\* mutant: the save is rejected after the document has been written
SaveRejectsAfterWrite(i) ==
    /\ reqs[i].pc = "saving"
    /\ PostureData' = Append(PostureData, Document(i, reqs[i]))
    /\ reqs' = [reqs EXCEPT
                  ![i].pc = "done",
                  ![i].steps = @ \o <<"saveFailed", "catch", "respond">>,
                  ![i].res = Append(@, Response(500, "Server error", "", ""))]
    /\ UNCHANGED <<registeredChairIds, emitted, aside>>

\* the rejection is thrown at the await and caught by the handler's catch
SaveRejects(i) ==
    /\ reqs[i].pc = "saving"
    /\ reqs' = [reqs EXCEPT
                  ![i].pc = "done",
                  ![i].steps = @ \o <<"saveFailed", "catch", "respond">>,
                  ![i].res = Append(@, Response(500, "Server error", "", ""))]
    /\ UNCHANGED <<registeredChairIds, PostureData, emitted, aside>>

(***************************************************************************)
(* The handler resumes after the await: io.emit, then the 200 response     *)
(* (server.js 231-243, 279-291).  An exception of io.emit is caught by     *)
(* the handler's catch.                                                    *)
(***************************************************************************)
EventOf(i, r) ==
    IF r.body.route = "/chair" THEN ChairDataEvent(i, r)
    ELSE PostureUpdateEvent(i, r)

SuccessMessage(r) ==
    IF r.body.route = "/chair" THEN "Data received successfully"
    ELSE "PoseNet data received successfully"

\* mutant: postureStatus is one variable shared by all the handlers, so the
\* handler resumes with the label of the request classified last
ResumeAfterSaveSharedStatus(i) ==
    LET last == CHOOSE j \in Requests :
                    /\ reqs[j].pc # "idle"
                    /\ \A m \in Requests : reqs[m].pc # "idle" => m <= j
        shared == [reqs[i] EXCEPT !.postureStatus = reqs[last].postureStatus]
    IN  /\ reqs[i].pc = "saved"
        /\ emitted' = Append(emitted, EventOf(i, shared))
        /\ reqs' = [reqs EXCEPT
                      ![i].pc = "done",
                      ![i].steps = @ \o <<"emit", "respond">>,
                      ![i].res = Append(@, Response(200, "", SuccessMessage(shared),
                                                    shared.postureStatus))]
        /\ UNCHANGED <<registeredChairIds, PostureData, aside>>

\* mutant: the handler goes on only when no connected client lags behind
ResumeAfterSaveAwaitsClients(i) ==
    /\ reqs[i].pc = "saved"
    /\ \A c \in DOMAIN subscribers :
          subscribers[c].connected => subscribers[c].received = Len(emitted)
    /\ emitted' = Append(emitted, EventOf(i, reqs[i]))
    /\ reqs' = [reqs EXCEPT
                  ![i].pc = "done",
                  ![i].steps = @ \o <<"emit", "respond">>,
                  ![i].res = Append(@, Response(200, "", SuccessMessage(reqs[i]),
                                                reqs[i].postureStatus))]
    /\ UNCHANGED <<registeredChairIds, PostureData, aside>>

ResumeAfterSave(i) ==
    /\ reqs[i].pc = "saved"
    /\ emitted' = Append(emitted, EventOf(i, reqs[i]))
    /\ reqs' = [reqs EXCEPT
                  ![i].pc = "done",
                  ![i].steps = @ \o <<"emit", "respond">>,
                  ![i].res = Append(@, Response(200, "", SuccessMessage(reqs[i]),
                                                reqs[i].postureStatus))]
    /\ UNCHANGED <<registeredChairIds, PostureData, aside>>

EmitThrows(i) ==
    /\ reqs[i].pc = "saved"
    /\ reqs' = [reqs EXCEPT
                  ![i].pc = "done",
                  ![i].steps = @ \o <<"emitFailed", "catch", "respond">>,
                  ![i].res = Append(@, Response(500, "Server error", "", ""))]
    /\ UNCHANGED <<registeredChairIds, PostureData, emitted, aside>>

Next ==
    \/ \E i \in Requests, body \in ChairBodies : PostChair(i, body)
    \/ \E i \in Requests, body \in PosenetBodies : PostPosenet(i, body)
    \/ \E i \in Requests : SaveResolves(i)
    \/ \E i \in Requests : SaveRejects(i)
    \/ \E i \in Requests : ResumeAfterSave(i)
    \/ \E i \in Requests : EmitThrows(i)

Spec == Init /\ [][Next]_vars

(***************************************************************************)
(* The clock.  Time passes in steps of one hour, so that a document can be *)
(* younger than, exactly as old as, or older than the window of            *)
(* GET /api/chairids.                                                      *)
(***************************************************************************)
Tick ==
    /\ now < MaxTicks * HourMs
    /\ now' = now + HourMs
    /\ UNCHANGED <<registeredChairIds, PostureData, emitted, reqs, probe, lastGet,
                   subscribers>>

(***************************************************************************)
(* GET /api/health (server.js 175-177).                                    *)
(***************************************************************************)
GetHealth ==
    /\ lastGet.pc # "querying"
    /\ lastGet' = [route |-> "/api/health", pc |-> "done", since |-> 0,
                   status |-> 200, ids |-> {}]
    /\ UNCHANGED <<registeredChairIds, PostureData, emitted, reqs, probe, now,
                   subscribers>>

(***************************************************************************)
(* GET /api/chairids (server.js 181-197).  The handler computes the start  *)
(* of the window and awaits the query; the store then answers with the     *)
(* distinct chairId values of the documents it holds at that moment whose  *)
(* timestamp is in the window (a document without chairId contributes no   *)
(* value), or the query is rejected and the catch answers 500.  `since`    *)
(* is the handler's local oneMinuteAgo, which lives until the response.    *)
(***************************************************************************)
\* Date.now() - 3600 * 1000
oneMinuteAgo == now - HourMs

GetChairIds ==
    /\ lastGet.pc # "querying"
    /\ lastGet' = [route |-> "/api/chairids", pc |-> "querying",
                   since |-> oneMinuteAgo, status |-> 0, ids |-> {}]
    /\ UNCHANGED <<registeredChairIds, PostureData, emitted, reqs, probe, now,
                   subscribers>>

\* mutant: $gt instead of $gte
findSinceStrict(since) ==
    {k \in 1..Len(PostureData) : PostureData[k].timestamp > since}

\* PostureData.find({ timestamp: { $gte: since } })
findSince(since) ==
    {k \in 1..Len(PostureData) : PostureData[k].timestamp >= since}

\* mutant: the identifiers of the registry are returned as well
distinctChairIdOrRegistered(found) ==
    ({PostureData[k].chairId : k \in found}
        \cup {registeredChairIds[k] : k \in 1..Len(registeredChairIds)})
    \ {UNDEFINED}

\* .distinct('chairId')
distinctChairId(found) ==
    {PostureData[k].chairId : k \in found} \ {UNDEFINED}

QueryResolves ==
    /\ lastGet.pc = "querying"
    /\ lastGet' = [lastGet EXCEPT
                     !.pc = "done",
                     !.since = 0,
                     !.status = 200,
                     !.ids = distinctChairId(findSince(lastGet.since))]
    /\ UNCHANGED <<registeredChairIds, PostureData, emitted, reqs, probe, now,
                   subscribers>>

QueryRejects ==
    /\ lastGet.pc = "querying"
    /\ lastGet' = [lastGet EXCEPT !.pc = "done", !.since = 0, !.status = 500]
    /\ UNCHANGED <<registeredChairIds, PostureData, emitted, reqs, probe, now,
                   subscribers>>

(***************************************************************************)
(* The server with its clock and its GET routes.  The ingestion requests   *)
(* are three: a /chair request with an identifier and no sensors, a valid  *)
(* /chair request without identifier, a /posenet request with neither      *)
(* chairId nor keypoints.                                                  *)
(***************************************************************************)
QueryChairBodies ==
    { Body("/chair", "chair-1", "undefined", <<>>, <<>>),
      Body("/chair", UNDEFINED, "array", Sensors4(100, 100, 100, 100), <<>>) }

QueryPosenetBodies ==
    { Body("/posenet", UNDEFINED, "undefined", <<>>, <<>>) }

NextQuery ==
    \/ \E i \in Requests, body \in QueryChairBodies : PostChair(i, body)
    \/ \E i \in Requests, body \in QueryPosenetBodies : PostPosenet(i, body)
    \/ \E i \in Requests : SaveResolves(i)
    \/ \E i \in Requests : SaveRejects(i)
    \/ \E i \in Requests : ResumeAfterSave(i)
    \/ \E i \in Requests : EmitThrows(i)
    \/ Tick
    \/ GetHealth
    \/ GetChairIds
    \/ QueryResolves
    \/ QueryRejects

SpecQuery == Init /\ [][NextQuery]_vars

(***************************************************************************)
(* The ingestion pipeline under concurrent requests that differ in route,  *)
(* identifier and label: /chair without identifier (good), /chair of       *)
(* "chair-1" with the weight on readings 2 and 3 (lean_forwarding), /chair *)
(* of "chair-1" without sensors (400), /posenet without chairId with       *)
(* tilted shoulders (poor), /posenet of "chair-1" with low scores          *)
(* (not_sitting).                                                          *)
(***************************************************************************)
InterleavedChairBodies ==
    { Body("/chair", UNDEFINED, "array", Sensors4(100, 100, 100, 100), <<>>),
      Body("/chair", "chair-1", "array", Sensors4(0, 0, 100, 100), <<>>),
      Body("/chair", "chair-1", "undefined", <<>>, <<>>) }

InterleavedPosenetBodies ==
    { Body("/posenet", UNDEFINED, "array", <<>>,
           <<Keypoint("nose", 9, 0, 0), Keypoint("leftShoulder", 9, 100, 200),
             Keypoint("rightShoulder", 9, 200, 260)>>),
      Body("/posenet", "chair-1", "array", <<>>,
           <<Keypoint("nose", 2, 0, 0), Keypoint("leftShoulder", 2, 0, 0),
             Keypoint("rightShoulder", 2, 0, 0)>>) }

NextInterleaved ==
    \/ \E i \in Requests, body \in InterleavedChairBodies : PostChair(i, body)
    \/ \E i \in Requests, body \in InterleavedPosenetBodies : PostPosenet(i, body)
    \/ \E i \in Requests : SaveResolves(i)
    \/ \E i \in Requests : SaveRejects(i)
    \/ \E i \in Requests : ResumeAfterSave(i)
    \/ \E i \in Requests : EmitThrows(i)

SpecInterleaved == Init /\ [][NextInterleaved]_vars

(***************************************************************************)
(* Socket.IO clients (server.js 300-307).  io.emit hands the event to the  *)
(* library and returns; a connected client receives the events emitted     *)
(* since it connected one by one, at its own pace, and a disconnected      *)
(* client receives nothing.                                                *)
(***************************************************************************)
Connect(c) ==
    /\ ~subscribers[c].connected
    /\ subscribers' = [subscribers EXCEPT
                         ![c] = [connected |-> TRUE, received |-> Len(emitted)]]
    /\ UNCHANGED <<registeredChairIds, PostureData, emitted, reqs, probe, now,
                   lastGet>>

Disconnect(c) ==
    /\ subscribers[c].connected
    /\ subscribers' = [subscribers EXCEPT
                         ![c] = [connected |-> FALSE, received |-> 0]]
    /\ UNCHANGED <<registeredChairIds, PostureData, emitted, reqs, probe, now,
                   lastGet>>

Deliver(c) ==
    /\ subscribers[c].connected
    /\ subscribers[c].received < Len(emitted)
    /\ subscribers' = [subscribers EXCEPT ![c].received = @ + 1]
    /\ UNCHANGED <<registeredChairIds, PostureData, emitted, reqs, probe, now,
                   lastGet>>

(***************************************************************************)
(* The server with its Socket.IO clients.  The ingestion requests are a    *)
(* valid /chair request and a valid /posenet request.  The event loop runs *)
(* the continuation of a handler whose save has resolved: weak fairness of *)
(* ResumeAfterSave.  Nothing is assumed of the store or of the clients.    *)
(***************************************************************************)
BroadcastChairBodies ==
    { Body("/chair", "chair-1", "array", Sensors4(100, 100, 100, 100), <<>>) }

BroadcastPosenetBodies ==
    { Body("/posenet", "chair-1", "array", <<>>,
           <<Keypoint("nose", 2, 0, 0), Keypoint("leftShoulder", 2, 0, 0),
             Keypoint("rightShoulder", 2, 0, 0)>>) }

NextBroadcast ==
    \/ \E i \in Requests, body \in BroadcastChairBodies : PostChair(i, body)
    \/ \E i \in Requests, body \in BroadcastPosenetBodies : PostPosenet(i, body)
    \/ \E i \in Requests : SaveResolves(i)
    \/ \E i \in Requests : SaveRejects(i)
    \/ \E i \in Requests : ResumeAfterSave(i)
    \/ \E i \in Requests : EmitThrows(i)
    \/ \E c \in Sockets : Connect(c)
    \/ \E c \in Sockets : Disconnect(c)
    \/ \E c \in Sockets : Deliver(c)

SpecBroadcast ==
    /\ Init
    /\ [][NextBroadcast]_vars
    /\ \A i \in Requests : WF_vars(ResumeAfterSave(i))

(***************************************************************************)
(* Unit-test harness of evaluatePosture (Tests/server.test.js 6-25): one   *)
(* direct call on four non-negative readings.                              *)
(***************************************************************************)
ReadingInputs == {k * ReadingUnit : k \in 0..MaxReadingUnits}

InitPosture ==
    /\ ServerStarted
    /\ \E a \in ReadingInputs, b \in ReadingInputs,
          c \in ReadingInputs, d \in ReadingInputs :
          probe = [fn |-> "evaluatePosture", sensors |-> Sensors4(a, b, c, d),
                   keypoints |-> <<>>, called |-> FALSE, result |-> ""]

CallEvaluatePosture ==
    /\ probe.fn = "evaluatePosture"
    /\ ~probe.called
    /\ probe' = [probe EXCEPT !.called = TRUE,
                              !.result = evaluatePosture(probe.sensors)]
    /\ UNCHANGED <<registeredChairIds, PostureData, emitted, reqs, now, lastGet,
                   subscribers>>

NextPosture == CallEvaluatePosture

SpecPosture == InitPosture /\ [][NextPosture]_vars

(***************************************************************************)
(* Unit-test harness of analyzePoseNetPosture (Tests/server.test.js        *)
(* 31-55): one direct call on a keypoint array in which each of the five   *)
(* parts is absent or present once, with a score on either side of its     *)
(* threshold (0.2 or 0.3 for nose and shoulders, 0.5 or 0.6 for the ears). *)
(***************************************************************************)
PoseYs == 0..MaxPoseY
PoseXs == {0, 10}

NoseInputs ==
    {<<>>} \cup {<<Keypoint("nose", s, 0, 0)>> : s \in {2, 3}}
LeftShoulderInputs ==
    {<<>>} \cup {<<Keypoint("leftShoulder", s, 0, y)>> : s \in {2, 3}, y \in PoseYs}
RightShoulderInputs ==
    {<<>>} \cup {<<Keypoint("rightShoulder", s, x, y)>> :
                     s \in {2, 3}, x \in PoseXs, y \in PoseYs}
LeftEarInputs ==
    {<<>>} \cup {<<Keypoint("leftEar", s, 0, y)>> : s \in {5, 6}, y \in PoseYs}
RightEarInputs ==
    {<<>>} \cup {<<Keypoint("rightEar", s, x, y)>> :
                     s \in {5, 6}, x \in PoseXs, y \in PoseYs}

InitPose ==
    /\ ServerStarted
    /\ \E n \in NoseInputs, ls \in LeftShoulderInputs, rs \in RightShoulderInputs,
          le \in LeftEarInputs, re \in RightEarInputs :
          probe = [fn |-> "analyzePoseNetPosture", sensors |-> <<>>,
                   keypoints |-> n \o ls \o rs \o le \o re,
                   called |-> FALSE, result |-> ""]

CallAnalyzePoseNetPosture ==
    /\ probe.fn = "analyzePoseNetPosture"
    /\ ~probe.called
    /\ ~analyzePoseNetPostureThrows(probe.keypoints)
    /\ probe' = [probe EXCEPT !.called = TRUE,
                              !.result = analyzePoseNetPosture(probe.keypoints)]
    /\ UNCHANGED <<registeredChairIds, PostureData, emitted, reqs, now, lastGet,
                   subscribers>>

NextPose == CallAnalyzePoseNetPosture

SpecPose == InitPose /\ [][NextPose]_vars

(***************************************************************************)
(* Vocabulary of the properties.                                           *)
(***************************************************************************)
\* position of the first occurrence of a step in a handler's trace, 0 if none
StepIndex(steps, name) ==
    IF \E k \in 1..Len(steps) : steps[k] = name
    THEN CHOOSE k \in 1..Len(steps) :
             steps[k] = name /\ \A m \in 1..(k - 1) : steps[m] # name
    ELSE 0
Did(i, name) == StepIndex(reqs[i].steps, name) > 0
\* if both steps happened, the first happened before the second
InOrder(i, first, second) ==
    (Did(i, first) /\ Did(i, second)) =>
        StepIndex(reqs[i].steps, first) < StepIndex(reqs[i].steps, second)

DocumentsOf(i) == {k \in 1..Len(PostureData) : PostureData[k].req = i}
EventsOf(i) == {k \in 1..Len(emitted) : emitted[k].req = i}
Answered(i, st) == reqs[i].res # <<>> /\ reqs[i].res[1].status = st

\* the four readings of the harness call, by JavaScript index
R(k) == probe.sensors[k + 1].value.n
ReadingSum == R(0) + R(1) + R(2) + R(3)
\* the classifier's own pairing (server.js 104-105)
ClassifierFront == R(2) + R(3)
ClassifierBack == R(0) + R(1)
SideDifference == AbsInt((R(0) + R(2)) - (R(1) + R(3)))
ForwardLeanLabels == {"leaning_forward", "lean_forwarding"}

(***************************************************************************)
(* C1: for every request the steps occur in the order classify, persist,   *)
(* broadcast, respond; an event of a request is in the emitted sequence    *)
(* only if that request's document has been stored by a successful save,   *)
(* and a request whose save failed has no event.                           *)
(***************************************************************************)
C1_PersistBeforeBroadcast ==
    \A i \in Requests :
        /\ EventsOf(i) # {} => (DocumentsOf(i) # {} /\ Did(i, "saved"))
        /\ Did(i, "saveFailed") => EventsOf(i) = {}
        /\ Did(i, "emit") <=> EventsOf(i) # {}
        /\ Did(i, "emit") => (Did(i, "classify") /\ Did(i, "saved"))
        /\ InOrder(i, "classify", "save")
        /\ InOrder(i, "save", "saved")
        /\ InOrder(i, "saved", "emit")
        /\ InOrder(i, "emit", "respond")
        /\ Answered(i, 200) => EventsOf(i) # {}

\* one request stored, broadcast and answered 200; another whose save failed
C1_Witness ==
    \E i, j \in Requests :
        /\ Answered(i, 200) /\ EventsOf(i) # {} /\ DocumentsOf(i) # {}
        /\ Did(j, "saveFailed") /\ reqs[j].pc = "done"

(***************************************************************************)
(* C2: a POST /chair request whose sensors field is missing or not an      *)
(* array changes neither the chair registry nor the stored documents nor   *)
(* the emitted events.                                                     *)
(***************************************************************************)
C2_InvalidChairNoMutation ==
    [][ \A i \in Requests :
          ( /\ reqs[i].pc = "idle"
            /\ reqs'[i].pc # "idle"
            /\ reqs'[i].body.route = "/chair"
            /\ reqs'[i].body.payloadType # "array" )
          => /\ registeredChairIds' = registeredChairIds
             /\ PostureData' = PostureData
             /\ emitted' = emitted ]_vars

(***************************************************************************)
(* C3: a request with a missing or non-array payload is answered 400 with  *)
(* the route's message ("Invalid sensor data format" on /chair, "Invalid   *)
(* keypoints data" on /posenet); its classifier is not called, no document *)
(* is stored and no event is emitted for it.                               *)
(***************************************************************************)
C3_InvalidPayloadRejected ==
    \A i \in Requests :
        (reqs[i].pc # "idle" /\ reqs[i].body.payloadType # "array") =>
            /\ reqs[i].res =
                 <<Response(400,
                            IF reqs[i].body.route = "/chair"
                            THEN "Invalid sensor data format"
                            ELSE "Invalid keypoints data",
                            "", "")>>
            /\ ~Did(i, "classify")
            /\ reqs[i].postureStatus = ""
            /\ DocumentsOf(i) = {}
            /\ EventsOf(i) = {}

\* both routes have rejected a request: one absent payload, one non-array
C3_Witness ==
    \E i, j \in Requests :
        /\ reqs[i].body.route = "/chair" /\ reqs[i].body.payloadType = "undefined"
        /\ reqs[j].body.route = "/posenet" /\ reqs[j].body.payloadType = "object"
        /\ Answered(i, 400) /\ Answered(j, 400)

(***************************************************************************)
(* C4: every request is answered at most once, and a finished handler has  *)
(* answered exactly once: 400 for an invalid payload, 500 "Server error"   *)
(* when the classifier, the save or the emit threw, 200 otherwise; a       *)
(* handler that has not finished has not answered.                         *)
(***************************************************************************)
ClassifierThrew(i) ==
    IF reqs[i].body.route = "/chair"
    THEN \E k \in 1..Len(reqs[i].body.sensors) : reqs[i].body.sensors[k].isNull
    ELSE analyzePoseNetPostureThrows(reqs[i].body.keypoints)

ExpectedStatus(i) ==
    IF reqs[i].body.payloadType # "array" THEN 400
    ELSE IF ClassifierThrew(i) \/ Did(i, "saveFailed") \/ Did(i, "emitFailed")
         THEN 500
    ELSE 200

C4_ExactlyOneResponse ==
    \A i \in Requests :
        /\ Len(reqs[i].res) <= 1
        /\ reqs[i].pc # "done" => reqs[i].res = <<>>
        /\ reqs[i].pc = "done" =>
             /\ Len(reqs[i].res) = 1
             /\ reqs[i].res[1].status = ExpectedStatus(i)
             /\ reqs[i].res[1].status = 500 =>
                    reqs[i].res[1].error = "Server error"

\* a request answered 500 is followed by a later request answered 200
C4_Witness ==
    \E i, j \in Requests :
        /\ i < j
        /\ Answered(i, 500) /\ Did(i, "saveFailed")
        /\ Answered(j, 200)

(***************************************************************************)
(* C5: four non-negative readings whose sum is below 200 are classified    *)
(* not_sitting, whatever their distribution.                               *)
(***************************************************************************)
C5_LowTotalNotSitting ==
    (probe.called /\ ReadingSum < 200) => probe.result = "not_sitting"

\* a light reading that passes the forward-lean test and the imbalance test
C5_Witness ==
    /\ probe.called
    /\ ReadingSum < 200
    /\ 2 * ClassifierFront > 3 * ClassifierBack
    /\ 10 * SideDifference > 3 * ReadingSum
    /\ probe.result = "not_sitting"

(***************************************************************************)
(* C6: with front = readings[0] + readings[1] and back = readings[2] +     *)
(* readings[3], readings of sum >= 200 get the forward-lean label exactly  *)
(* when front > 1.5 * back.                                                *)
(***************************************************************************)
C6_FrontIsReadings01 ==
    (probe.called /\ ReadingSum >= 200) =>
        (probe.result \in ForwardLeanLabels
            <=> 2 * (R(0) + R(1)) > 3 * (R(2) + R(3)))

PostureLabel == {"not_sitting", "poor", "good", "leaning_forward"}

C9_LabelsInEnumeration ==
    /\ \A i \in Requests :
          /\ Did(i, "save") => reqs[i].postureStatus \in PostureLabel
          /\ Answered(i, 200) => reqs[i].res[1].postureStatus \in PostureLabel
    /\ \A k \in 1..Len(PostureData) : PostureData[k].postureStatus \in PostureLabel
    /\ \A k \in 1..Len(emitted) : emitted[k].postureStatus \in PostureLabel

(***************************************************************************)
(* C10: the postureStatus of every 200 response, on /chair and on          *)
(* /posenet, is one of not_sitting, poor, good.                            *)
(***************************************************************************)
DocumentedLabels == {"not_sitting", "poor", "good"}

C10_ResponseLabelDocumented ==
    \A i \in Requests :
        Answered(i, 200) => reqs[i].res[1].postureStatus \in DocumentedLabels

(***************************************************************************)
(* Vocabulary of the keypoint properties: the harness call's keypoints,    *)
(* read without the classifier's own helpers.  Each part occurs at most    *)
(* once in a harness input.                                                *)
(***************************************************************************)
Present(p) == \E k \in 1..Len(probe.keypoints) : probe.keypoints[k].part = p
K(p) == probe.keypoints[CHOOSE k \in 1..Len(probe.keypoints) :
                            probe.keypoints[k].part = p]
EssentialsReliable ==
    /\ Present("nose") /\ Present("leftShoulder") /\ Present("rightShoulder")
    /\ K("nose").score >= 3
    /\ K("leftShoulder").score >= 3
    /\ K("rightShoulder").score >= 3
ShoulderDiffOfCall == AbsInt(K("leftShoulder").y - K("rightShoulder").y)
ShoulderDistanceOfCall == AbsInt(K("leftShoulder").x - K("rightShoulder").x)
EarsQualify ==
    /\ Present("leftEar") /\ Present("rightEar")
    /\ K("leftEar").score > 5 /\ K("rightEar").score > 5
EarsTiltedOfCall ==
    10 * AbsInt(K("leftEar").y - K("rightEar").y)
        > 3 * AbsInt(K("leftEar").x - K("rightEar").x)

(***************************************************************************)
(* C11: when nose, leftShoulder or rightShoulder is absent or has a score  *)
(* below 0.3, the result is not_sitting, whatever the positions and the    *)
(* ears.                                                                   *)
(***************************************************************************)
C11_UnreliableEssentialsNotSitting ==
    (probe.called /\ probe.fn = "analyzePoseNetPosture" /\ ~EssentialsReliable)
        => probe.result = "not_sitting"

\* only the nose is missing; shoulders and ears are reliable and tilted
C11_Witness ==
    /\ probe.called
    /\ ~Present("nose")
    /\ Present("leftShoulder") /\ Present("rightShoulder")
    /\ K("leftShoulder").score >= 3 /\ K("rightShoulder").score >= 3
    /\ 5 * ShoulderDiffOfCall > ShoulderDistanceOfCall
    /\ EarsQualify /\ EarsTiltedOfCall
    /\ probe.result = "not_sitting"

(***************************************************************************)
(* C12: with nose and both shoulders present and of score >= 0.3, the      *)
(* result is poor exactly when shoulderDiff > 0.2 * shoulderDistance, or   *)
(* both ears are present with score > 0.5 and earDiff > 0.3 * earDistance; *)
(* otherwise it is good.                                                   *)
(***************************************************************************)
C12_PoorIffTilted ==
    (probe.called /\ probe.fn = "analyzePoseNetPosture" /\ EssentialsReliable)
        => LET tilted == \/ 5 * ShoulderDiffOfCall > ShoulderDistanceOfCall
                         \/ (EarsQualify /\ EarsTiltedOfCall)
           IN  /\ probe.result = "poor" <=> tilted
               /\ probe.result = "good" <=> ~tilted

\* level shoulders, tilted ears, one ear of score exactly 0.5: good
C12_Witness ==
    /\ probe.called
    /\ EssentialsReliable
    /\ ~(5 * ShoulderDiffOfCall > ShoulderDistanceOfCall)
    /\ Present("leftEar") /\ Present("rightEar")
    /\ K("leftEar").score = 5 /\ K("rightEar").score = 6
    /\ EarsTiltedOfCall
    /\ probe.result = "good"

(***************************************************************************)
(* C13 as stated: with the essentials reliable and the two shoulders at    *)
(* the same x, the result is poor, also when they are at the same y.       *)
(***************************************************************************)
C13_CoincidentXPoor ==
    ( /\ probe.called /\ probe.fn = "analyzePoseNetPosture"
      /\ EssentialsReliable
      /\ ShoulderDistanceOfCall = 0 )
    => probe.result = "poor"

(***************************************************************************)
(* C13 as amended: with the essentials reliable and the two shoulders at   *)
(* the same x, the result is poor when their y differ; when their y are    *)
(* equal too, the shoulder test does not fire and the result is that of    *)
(* the ear test: poor if both ears qualify and are tilted, good otherwise. *)
(***************************************************************************)
C13_CoincidentXPoorIffYDiffers ==
    ( /\ probe.called /\ probe.fn = "analyzePoseNetPosture"
      /\ EssentialsReliable
      /\ ShoulderDistanceOfCall = 0 )
    => /\ ShoulderDiffOfCall > 0 => probe.result = "poor"
       /\ ShoulderDiffOfCall = 0 =>
            probe.result = (IF EarsQualify /\ EarsTiltedOfCall
                            THEN "poor" ELSE "good")

\* both shoulders at the same point, no ears: good
C13_Witness ==
    /\ probe.called
    /\ EssentialsReliable
    /\ ShoulderDistanceOfCall = 0
    /\ ShoulderDiffOfCall = 0
    /\ ~Present("leftEar")
    /\ probe.result = "good"

(***************************************************************************)
(* C14: the chair identifier of every stored document and of every emitted *)
(* event, from either route, is a string: the identifier of the request    *)
(* when it gives one, "unknown" when it gives none.                        *)
(***************************************************************************)
IdentifierExpected(i) ==
    IF reqs[i].body.id # UNDEFINED THEN reqs[i].body.id ELSE "unknown"

C14_ChairIdGivenOrUnknown ==
    /\ \A k \in 1..Len(PostureData) :
          /\ PostureData[k].chairId # UNDEFINED
          /\ PostureData[k].chairId = IdentifierExpected(PostureData[k].req)
    /\ \A k \in 1..Len(emitted) :
          /\ emitted[k].chairId # UNDEFINED
          /\ emitted[k].chairId = IdentifierExpected(emitted[k].req)

(***************************************************************************)
(* C15: the chair registry is a set that only grows: it holds no           *)
(* identifier twice, it holds the identifier of every request whose        *)
(* handler has started (nothing is ever removed), and it has exactly one   *)
(* entry per distinct identifier (registering again changes nothing).      *)
(***************************************************************************)
StartedRequests == {i \in Requests : reqs[i].pc # "idle"}

C15_RegistryMonotonicSet ==
    /\ \A a, b \in 1..Len(registeredChairIds) :
          a # b => registeredChairIds[a] # registeredChairIds[b]
    /\ \A i \in StartedRequests :
          \E k \in 1..Len(registeredChairIds) :
              registeredChairIds[k] = reqs[i].chairId
    /\ Len(registeredChairIds) =
          Cardinality({reqs[i].chairId : i \in StartedRequests})

\* two requests in flight at once have registered the same identifier
C15_Witness ==
    \E i, j \in Requests :
        /\ i # j
        /\ reqs[i].pc = "saving" /\ reqs[j].pc = "saved"
        /\ reqs[i].chairId = reqs[j].chairId
        /\ Len(registeredChairIds) = 1

(***************************************************************************)
(* C16: whenever the /chair handler calls evaluatePosture, the sensors     *)
(* array has exactly 4 entries; an array of any other length is rejected   *)
(* with 400 before classification.                                         *)
(***************************************************************************)
C16_ClassifierGetsFourReadings ==
    \A i \in Requests :
        (reqs[i].body.route = "/chair" /\ reqs[i].body.payloadType = "array") =>
            /\ Did(i, "classify") => Len(reqs[i].body.sensors) = 4
            /\ (Len(reqs[i].body.sensors) # 4 /\ reqs[i].pc = "done")
                   => Answered(i, 400)

(***************************************************************************)
(* C20: on /posenet the identifier is registered as given, before the      *)
(* keypoints are validated: the registry holds the chairId of every        *)
(* /posenet request whose handler has started, also when its keypoints     *)
(* are invalid, and holds the undefined value when there is no chairId.    *)
(***************************************************************************)
C20_PosenetRegistersBeforeValidation ==
    \A i \in StartedRequests :
        reqs[i].body.route = "/posenet" =>
            /\ \E k \in 1..Len(registeredChairIds) :
                   registeredChairIds[k] = reqs[i].body.id
            /\ reqs[i].chairId = reqs[i].body.id
            /\ Did(i, "register") /\ Did(i, "validate")
            /\ InOrder(i, "register", "validate")

\* a /posenet request without chairId and without keypoints: 400, and the
\* registry holds undefined and nothing else
C20_Witness ==
    \E i \in Requests :
        /\ reqs[i].body.route = "/posenet"
        /\ reqs[i].body.id = UNDEFINED
        /\ reqs[i].body.payloadType = "undefined"
        /\ Answered(i, 400)
        /\ registeredChairIds = <<UNDEFINED>>

(***************************************************************************)
(* C17: the stored documents only grow: a request whose save has succeeded *)
(* has exactly one document, which is the one its handler built and is     *)
(* never changed afterwards; a request that failed validation or whose     *)
(* save failed has none; no other operation (GET /api/chairids,            *)
(* GET /api/health, the clock) adds, changes or removes a document.        *)
(***************************************************************************)
SavedRequests == {i \in Requests : Did(i, "saved")}

C17_DocumentsOnlyGrow ==
    /\ Len(PostureData) = Cardinality(SavedRequests)
    /\ \A i \in Requests :
          /\ i \in SavedRequests => Cardinality(DocumentsOf(i)) = 1
          /\ i \notin SavedRequests => DocumentsOf(i) = {}
          /\ (reqs[i].body.payloadType # "array" \/ Did(i, "saveFailed"))
                 => DocumentsOf(i) = {}
          /\ \A k \in DocumentsOf(i) :
                /\ PostureData[k].chairId = reqs[i].chairId
                /\ PostureData[k].sensors = reqs[i].body.sensors
                /\ PostureData[k].poseData = reqs[i].body.keypoints
                /\ PostureData[k].postureStatus = reqs[i].postureStatus
                /\ PostureData[k].timestamp = reqs[i].timestamp
                /\ PostureData[k].timestamp <= now

\* one request stored, one whose save failed, one hour later a
\* GET /api/chairids answered: still exactly the one document
C17_Witness ==
    /\ \E i, j \in Requests :
          /\ Did(i, "saved") /\ reqs[i].timestamp = 0
          /\ Did(j, "saveFailed") /\ reqs[j].pc = "done"
    /\ now = HourMs
    /\ lastGet.route = "/api/chairids" /\ lastGet.pc = "done"
    /\ Len(PostureData) = 1

(***************************************************************************)
(* C18: GET /api/chairids looks back exactly one hour from the time of the *)
(* request, and its 200 response carries exactly the distinct chair        *)
(* identifiers of the stored documents whose timestamp is in that window;  *)
(* the chair registry is not consulted.  (A rejected query is answered     *)
(* 500.)                                                                   *)
(***************************************************************************)
C18_ChairIdsOfLastHour ==
    [][ /\ (lastGet.pc # "querying" /\ lastGet'.pc = "querying")
            => lastGet'.since = now - 3600000
        /\ (lastGet.pc = "querying" /\ lastGet'.pc = "done")
            => /\ lastGet'.status \in {200, 500}
               /\ lastGet'.status = 200 =>
                    lastGet'.ids =
                        {id \in {PostureData[k].chairId : k \in 1..Len(PostureData)} :
                            /\ id # UNDEFINED
                            /\ \E k \in 1..Len(PostureData) :
                                  /\ PostureData[k].chairId = id
                                  /\ PostureData[k].timestamp >= lastGet.since} ]_vars

\* "chair-1" is registered by a request that stored nothing, a document of
\* "unknown" is exactly one hour old: the response lists "unknown" only
C18_Witness ==
    /\ lastGet.route = "/api/chairids" /\ lastGet.pc = "done"
    /\ lastGet.status = 200
    /\ lastGet.ids = {"unknown"}
    /\ \E k \in 1..Len(registeredChairIds) : registeredChairIds[k] = "chair-1"
    /\ \E k \in 1..Len(PostureData) :
          PostureData[k].chairId = "unknown" /\ PostureData[k].timestamp = 0
    /\ now = HourMs

(***************************************************************************)
(* C19: broadcast is fire-and-forget: whatever the clients do (connected,  *)
(* lagging, disconnected), a handler whose save has resolved can emit and  *)
(* answer 200, and every request whose save has completed is eventually    *)
(* answered.                                                               *)
(***************************************************************************)
C19_FireAndForget ==
    \A i \in Requests :
        /\ [](reqs[i].pc = "saved" => ENABLED ResumeAfterSave(i))
        /\ (reqs[i].pc = "saved") ~> (reqs[i].pc = "done")

\* a request is answered 200 while a connected client has received none of
\* the events
C19_Witness ==
    \E i \in Requests, c \in Sockets :
        /\ Answered(i, 200)
        /\ subscribers[c].connected
        /\ subscribers[c].received = 0
        /\ Len(emitted) = MaxRequests

(***************************************************************************)
(* C21: a request answered 200 has exactly one stored document and exactly *)
(* one emitted event (chairData with source "sensors" for /chair,          *)
(* postureUpdate with source "posenet" and hasPoseData true for /posenet), *)
(* and the postureStatus of the response, of the document and of the event *)
(* is the classifier's result on the request's sensors resp. keypoints.    *)
(***************************************************************************)
ClassifierResult(i) ==
    IF reqs[i].body.route = "/chair"
    THEN evaluatePosture(reqs[i].body.sensors)
    ELSE analyzePoseNetPosture(reqs[i].body.keypoints)

C21_OneRecordOneEventSameStatus ==
    \A i \in Requests :
        Answered(i, 200) =>
            /\ Len(reqs[i].res) = 1
            /\ reqs[i].res[1].postureStatus = ClassifierResult(i)
            /\ Cardinality(DocumentsOf(i)) = 1
            /\ Cardinality(EventsOf(i)) = 1
            /\ \A k \in DocumentsOf(i) :
                  PostureData[k].postureStatus = ClassifierResult(i)
            /\ \A k \in EventsOf(i) :
                  /\ emitted[k].postureStatus = ClassifierResult(i)
                  /\ reqs[i].body.route = "/chair" =>
                        /\ emitted[k].name = "chairData"
                        /\ emitted[k].source = "sensors"
                        /\ emitted[k].sensors = reqs[i].body.sensors
                  /\ reqs[i].body.route = "/posenet" =>
                        /\ emitted[k].name = "postureUpdate"
                        /\ emitted[k].source = "posenet"
                        /\ emitted[k].hasPoseData

\* a /chair request and a /posenet request, both answered 200, with
\* different labels
C21_Witness ==
    \E i, j \in Requests :
        /\ reqs[i].body.route = "/chair" /\ Answered(i, 200)
        /\ reqs[i].res[1].postureStatus = "lean_forwarding"
        /\ reqs[j].body.route = "/posenet" /\ Answered(j, 200)
        /\ reqs[j].res[1].postureStatus = "poor"
        /\ Len(PostureData) = 2 /\ Len(emitted) = 2

(***************************************************************************)
(* C22: under every interleaving of the requests, the response, the        *)
(* document and the event of a request are those its own body determines   *)
(* (for the outcome its save and its emit had): no value of another        *)
(* request appears in them.  Only the order of the documents and of the    *)
(* events of different requests varies.                                    *)
(***************************************************************************)
OwnChairId(i) ==
    IF reqs[i].body.route = "/chair" /\ reqs[i].body.id = UNDEFINED
    THEN "unknown"
    ELSE reqs[i].body.id

OwnMessage(i) ==
    IF reqs[i].body.route = "/chair" THEN "Data received successfully"
    ELSE "PoseNet data received successfully"

OwnRejection(i) ==
    IF reqs[i].body.route = "/chair" THEN "Invalid sensor data format"
    ELSE "Invalid keypoints data"

C22_RequestsDoNotInterfere ==
    /\ \A k \in 1..Len(PostureData) : reqs[PostureData[k].req].pc # "idle"
    /\ \A k \in 1..Len(emitted) : reqs[emitted[k].req].pc # "idle"
    /\ \A i \in Requests :
          /\ Cardinality(DocumentsOf(i)) <= 1
          /\ Cardinality(EventsOf(i)) <= 1
          /\ \A k \in DocumentsOf(i) :
                /\ PostureData[k].chairId = OwnChairId(i)
                /\ PostureData[k].sensors = reqs[i].body.sensors
                /\ PostureData[k].poseData = reqs[i].body.keypoints
                /\ PostureData[k].hasPoseData = (reqs[i].body.route = "/posenet")
                /\ PostureData[k].postureStatus = ClassifierResult(i)
          /\ \A k \in EventsOf(i) :
                /\ emitted[k].chairId = OwnChairId(i)
                /\ emitted[k].postureStatus = ClassifierResult(i)
                /\ emitted[k].name = IF reqs[i].body.route = "/chair"
                                     THEN "chairData" ELSE "postureUpdate"
                /\ emitted[k].source = IF reqs[i].body.route = "/chair"
                                       THEN "sensors" ELSE "posenet"
                /\ emitted[k].sensors = reqs[i].body.sensors
          /\ reqs[i].pc = "done" =>
                /\ Len(reqs[i].res) = 1
                /\ reqs[i].res[1].status \in {200, 400, 500}
                /\ reqs[i].res[1].status = 400 <=> reqs[i].body.payloadType # "array"
                /\ reqs[i].res[1].status = 400 =>
                      /\ reqs[i].res[1].error = OwnRejection(i)
                      /\ reqs[i].res[1].postureStatus = ""
                /\ reqs[i].res[1].status = 500 =>
                      /\ reqs[i].res[1].error = "Server error"
                      /\ reqs[i].res[1].postureStatus = ""
                /\ reqs[i].res[1].status = 200 =>
                      /\ reqs[i].res[1].error = ""
                      /\ reqs[i].res[1].message = OwnMessage(i)
                      /\ reqs[i].res[1].postureStatus = ClassifierResult(i)

\* two requests with different routes, identifiers and labels were both in
\* flight; the second was stored first and the first was broadcast first
C22_Witness ==
    /\ Len(PostureData) = 2 /\ Len(emitted) = 2
    /\ PostureData[1].req = 2 /\ PostureData[2].req = 1
    /\ emitted[1].req = 1 /\ emitted[2].req = 2
    /\ Answered(1, 200) /\ Answered(2, 200)
    /\ reqs[1].body.route # reqs[2].body.route
    /\ reqs[1].res[1].postureStatus # reqs[2].res[1].postureStatus
    /\ PostureData[1].chairId # PostureData[2].chairId

(***************************************************************************)
(* C23: the chair identifier of every stored document and of every emitted *)
(* event is in the chair registry, and every handler registers before it   *)
(* saves and before it emits.                                              *)
(***************************************************************************)
Registered(id) ==
    \E k \in 1..Len(registeredChairIds) : registeredChairIds[k] = id

C23_StoredAndEmittedIdsRegistered ==
    /\ \A k \in 1..Len(PostureData) : Registered(PostureData[k].chairId)
    /\ \A k \in 1..Len(emitted) : Registered(emitted[k].chairId)
    /\ \A i \in Requests :
          /\ (Did(i, "save") \/ Did(i, "emit")) => Did(i, "register")
          /\ InOrder(i, "register", "save")
          /\ InOrder(i, "register", "emit")

\* documents and events of the default identifier and of a given one
C23_Witness ==
    /\ \E k \in 1..Len(PostureData) : PostureData[k].chairId = "unknown"
    /\ \E k \in 1..Len(emitted) : emitted[k].chairId = "chair-1"
    /\ Len(PostureData) = 2 /\ Len(emitted) = 2
    /\ Len(registeredChairIds) = 2

=============================================================================
